---- MODULE Spec2Model ----
(***************************************************************************)
(* A model of licore's core-dump decoder (Core::parse).  The input is a    *)
(* byte buffer; the decoder runs as a pipeline of stages, each stage one   *)
(* action.  Bytes are naturals 0..255.  Multi-byte integers are kept as    *)
(* little-endian byte sequences (base-256 digits), so that u32/u64 values  *)
(* keep their real width; arithmetic on them is done digit by digit.       *)
(* Buffer lengths and indices are plain naturals.                          *)
(***************************************************************************)
EXTENDS Integers, Sequences, FiniteSets, TLC

VARIABLES
    data,             \* the caller's input buffer (bytes)
    input,            \* the description the buffer was built from
    overflow_checks,  \* the build: TRUE when arithmetic overflow panics
    pc,               \* the stage Core::parse has reached
    error,            \* the ParseError message, or the panic message
    header,           \* elf.rs Header {ph_offset, ph_count}
    program_headers,  \* Elf.program_headers
    notes,            \* Elf.notes
    segments,         \* Core.segments
    process,          \* Core.process
    threads,          \* Core.threads
    file_map          \* Core.file_map

vars == <<data, input, overflow_checks, pc, error, header, program_headers,
          notes, segments, process, threads, file_map>>

-----------------------------------------------------------------------------
(* Little-endian integers as byte sequences.                               *)

RECURSIVE LE(_, _)
\* n (a natural below 2^31) as w little-endian bytes
LE(n, w) == IF w = 0 THEN <<>> ELSE <<n % 256>> \o LE(n \div 256, w - 1)

Zeros(w) == [i \in 1..w |-> 0]

\* TRUE when the little-endian value b is below 2^31
IsSmall(b) ==
    /\ \A i \in 1..Len(b) : i > 4 => b[i] = 0
    /\ (Len(b) >= 4 => b[4] < 128)

RECURSIVE ToNat(_)
\* the value of b, for IsSmall(b)
ToNat(b) == IF b = <<>> THEN 0
            ELSE IF \A i \in 1..Len(b) : b[i] = 0 THEN 0
            ELSE b[1] + 256 * ToNat(Tail(b))

\* integer widening (`as usize`, `.into()`): zero-extend to w bytes
Widen(b, w) == b \o Zeros(w - Len(b))

\* a < b on equally long little-endian values
LtLE(a, b) ==
    \E i \in 1..Len(a) :
        /\ a[i] < b[i]
        /\ \A j \in (i+1)..Len(a) : a[j] = b[j]

\* n < b for a natural n below 2^31 and a little-endian value b
NatLt(n, b) == ~IsSmall(b) \/ n < ToNat(b)

\* a + b on w-byte values: the wrapped sum and the carry out
AddLE(a, b) ==
    LET w == Len(a)
        c[i \in 0..w] == IF i = 0 THEN 0 ELSE (a[i] + b[i] + c[i-1]) \div 256
    IN  [val |-> [i \in 1..w |-> (a[i] + b[i] + c[i-1]) % 256], carry |-> c[w]]

\* a - b on w-byte values, for b <= a
SubLE(a, b) ==
    LET w == Len(a)
        br[i \in 0..w] == IF i = 0 THEN 0
                          ELSE IF a[i] - b[i] - br[i-1] < 0 THEN 1 ELSE 0
    IN  [i \in 1..w |-> (a[i] - b[i] - br[i-1] + 256) % 256]

\* a * b on w-byte values: the wrapped product and whether it overflowed
MulLE(a, b) ==
    LET w == Len(a)
        col(k) == LET lo == IF k > w THEN k - w + 1 ELSE 1
                      hi == IF k > w THEN w ELSE k
                      s[i \in (lo-1)..hi] ==
                          IF i = lo - 1 THEN 0 ELSE s[i-1] + a[i] * b[k + 1 - i]
                  IN  s[hi]
        c[k \in 0..(2*w - 1)] == IF k = 0 THEN 0 ELSE (col(k) + c[k-1]) \div 256
        digit(k) == (col(k) + c[k-1]) % 256
    IN  [val |-> [k \in 1..w |-> digit(k)],
         overflow |-> \/ \E k \in (w+1)..(2*w - 1) : digit(k) # 0
                      \/ c[2*w - 1] # 0]

\* d * q for a w-byte d and a natural q <= 256, wrapped to w bytes
MulSmall(d, q) ==
    LET w == Len(d)
        c[i \in 0..w] == IF i = 0 THEN 0 ELSE (d[i] * q + c[i-1]) \div 256
    IN  [i \in 1..w |-> (d[i] * q + c[i-1]) % 256]

\* one digit of long division: (256*r + byte) % d, for r < d
RemByte(r, byte, d) ==
    LET w == Len(r)
        x == <<byte>> \o r
        e == Widen(d, w + 1)
        q == CHOOSE k \in 0..255 :
                 /\ ~LtLE(x, MulSmall(e, k))
                 /\ LtLE(x, MulSmall(e, k + 1))
    IN  SubSeq(SubLE(x, MulSmall(e, q)), 1, w)

RECURSIVE RemBytes(_, _, _, _)
\* long division: the remainder after digits k..1 of a, from remainder r
RemBytes(a, d, r, k) ==
    IF k = 0 THEN r ELSE RemBytes(a, d, RemByte(r, a[k], d), k - 1)

RECURSIVE RemNat(_, _, _, _)
\* long division by a natural n < 2^23: the remainder after digits k..1
\* of a, from remainder r
RemNat(a, n, r, k) ==
    IF k = 0 THEN r ELSE RemNat(a, n, (r * 256 + a[k]) % n, k - 1)

\* a % d on w-byte values, d nonzero
RemLE(a, d) ==
    IF IsSmall(a) /\ IsSmall(d) THEN LE(ToNat(a) % ToNat(d), Len(a))
    ELSE IF IsSmall(d) /\ ToNat(d) < 8388608
         THEN LE(RemNat(a, ToNat(d), 0, Len(a)), Len(a))
    ELSE IF LtLE(a, d) THEN a
    ELSE RemBytes(a, d, Zeros(Len(a)), Len(a))

\* two's-complement value of a 1- or 4-byte little-endian integer (i8, i32)
ToSigned(b) ==
    LET w   == Len(b)
        top == IF b[w] >= 128 THEN b[w] - 256 ELSE b[w]
    IN  IF w = 1 THEN top
        ELSE ToNat(SubSeq(b, 1, w - 1) \o <<0>>) + 16777216 * top

RECURSIVE HexDigitsAll(_, _)
\* the hexadecimal digits of the little-endian integer b from nibble k down
HexDigitsAll(b, k) ==
    LET byte == b[(k + 1) \div 2]
        nib  == IF k % 2 = 0 THEN byte \div 16 ELSE byte % 16
        ch   == <<"0", "1", "2", "3", "4", "5", "6", "7", "8", "9",
                  "a", "b", "c", "d", "e", "f">>[nib + 1]
    IN  IF k = 0 THEN "" ELSE ch \o HexDigitsAll(b, k - 1)

RECURSIVE HexDigits(_, _)
\* the hexadecimal digits of the little-endian integer b from nibble k down,
\* without leading zeros
HexDigits(b, k) ==
    LET byte == b[(k + 1) \div 2]
        nib  == IF k % 2 = 0 THEN byte \div 16 ELSE byte % 16
        ch   == <<"0", "1", "2", "3", "4", "5", "6", "7", "8", "9",
                  "a", "b", "c", "d", "e", "f">>[nib + 1]
    IN  IF k = 1 THEN ch
        ELSE IF nib = 0 /\ \A j \in ((k + 1) \div 2 + 1)..Len(b) : b[j] = 0
                        /\ (k % 2 = 0 \/ byte \div 16 = 0)
             THEN HexDigits(b, k - 1)
        ELSE ch \o HexDigitsAll(b, k - 1)

\* format!("{:#x}", b)
Hex(b) == "0x" \o HexDigits(b, 2 * Len(b))

\* b \div n for a natural n < 2^23, by long division
DivNat(b, n) ==
    LET w == Len(b)
        r[k \in 1..(w + 1)] ==
            IF k = w + 1 THEN 0 ELSE (r[k + 1] * 256 + b[k]) % n
    IN  [k \in 1..w |-> (r[k + 1] * 256 + b[k]) \div n]

RECURSIVE Dec(_)
\* format!("{:?}", b) of an unsigned integer: its decimal digits
Dec(b) ==
    IF IsSmall(b) THEN ToString(ToNat(b))
    ELSE Dec(DivNat(b, 10)) \o ToString(RemNat(b, 10, 0, Len(b)))

RECURSIVE DecList(_)
\* the elements of a byte slice in decimal, separated by ", "
DecList(s) ==
    IF s = <<>> THEN ""
    ELSE IF Len(s) = 1 THEN ToString(s[1])
    ELSE ToString(s[1]) \o ", " \o DecList(Tail(s))

\* format!("{:?}", s) of a byte slice
DebugSlice(s) == "[" \o DecList(s) \o "]"

-----------------------------------------------------------------------------
(* util.rs and read.rs                                                     *)

\* the error of the reader and of structview's view
NotEnoughData == "not enough data"

\* d[s..e] with 0-based half-open bounds
Slice(d, s, e) == SubSeq(d, s + 1, e)

\* d[s..]
SliceFrom(d, s) == SubSeq(d, s + 1, Len(d))

\* the index of the first 0 byte of s, or Len(s)+1
FirstNul(s) ==
    IF \E i \in 1..Len(s) : s[i] = 0
    THEN CHOOSE i \in 1..Len(s) : s[i] = 0 /\ \A j \in 1..(i-1) : s[j] # 0
    ELSE Len(s) + 1

\* a trim that only drops the NUL bytes at the end of s
trim_trailing_nuls(s) ==
    LET keep == {i \in 1..Len(s) : s[i] # 0}
    IN  SubSeq(s, 1, IF keep = {} THEN 0
                     ELSE CHOOSE i \in keep : \A j \in keep : j <= i)

trim_c_string(s) == SubSeq(s, 1, FirstNul(s) - 1)

RECURSIVE SplitNul(_)
\* s.split(|c| c == 0): every token, the last one being what follows the last 0
SplitNul(s) ==
    LET i == FirstNul(s)
    IN  IF i > Len(s) THEN <<s>>
        ELSE <<SubSeq(s, 1, i - 1)>> \o SplitNul(SubSeq(s, i + 1, Len(s)))

\* ReadExt::read_slice for a usize n given as little-endian bytes
read_slice(d, n) ==
    IF NatLt(Len(d), n) THEN [ok |-> FALSE, bytes |-> <<>>, rest |-> d]
    ELSE [ok |-> TRUE,
          bytes |-> SubSeq(d, 1, ToNat(n)),
          rest |-> SubSeq(d, ToNat(n) + 1, Len(d))]

\* ReadExt::read_u64: read_array::<8>, then from_le_bytes
read_u64(d) == read_slice(d, LE(8, 8))

-----------------------------------------------------------------------------
(* ctypes.rs: the C records.  A layout lists each field with its size in   *)
(* bytes, in declaration order; structview's integer types have alignment  *)
(* 1, so a repr(C) record has no padding beyond its declared fields.       *)

RECURSIVE SizeOf(_)
SizeOf(layout) ==
    IF layout = <<>> THEN 0 ELSE layout[1][2] + SizeOf(Tail(layout))

RECURSIVE OffsetOf(_, _)
OffsetOf(layout, name) ==
    IF layout[1][1] = name THEN 0
    ELSE layout[1][2] + OffsetOf(Tail(layout), name)

FieldSize(layout, name) ==
    LET i == CHOOSE j \in 1..Len(layout) : layout[j][1] = name
    IN  layout[i][2]

\* the bytes of field `name` of the record viewed at the start of d
Field(d, layout, name) ==
    Slice(d, OffsetOf(layout, name),
          OffsetOf(layout, name) + FieldSize(layout, name))

RECURSIVE EncStruct(_, _)
\* the bytes of a record, from its fields' bytes
EncStruct(layout, rec) ==
    IF layout = <<>> THEN <<>>
    ELSE rec[layout[1][1]] \o EncStruct(Tail(layout), rec)

Elf64_Ehdr ==
    << <<"e_ident", 16>>, <<"e_type", 2>>, <<"e_machine", 2>>,
       <<"e_version", 4>>, <<"e_entry", 8>>, <<"e_phoff", 8>>,
       <<"e_shoff", 8>>, <<"e_flags", 4>>, <<"e_ehsize", 2>>,
       <<"e_phentsize", 2>>, <<"e_phnum", 2>>, <<"e_shentsize", 2>>,
       <<"e_shnum", 2>>, <<"e_shstrndx", 2>> >>

Elf64_Phdr ==
    << <<"p_type", 4>>, <<"p_flags", 4>>, <<"p_offset", 8>>,
       <<"p_vaddr", 8>>, <<"p_paddr", 8>>, <<"p_filesz", 8>>,
       <<"p_memsz", 8>>, <<"p_align", 8>> >>

Elf64_Nhdr == << <<"n_namesz", 4>>, <<"n_descsz", 4>>, <<"n_type", 4>> >>

elf_prpsinfo ==
    << <<"pr_state", 1>>, <<"pr_sname", 1>>, <<"pr_zomb", 1>>,
       <<"pr_nice", 1>>, <<"_pad1", 4>>, <<"pr_flag", 8>>, <<"pr_uid", 4>>,
       <<"pr_gid", 4>>, <<"pr_pid", 4>>, <<"pr_ppid", 4>>, <<"pr_pgrp", 4>>,
       <<"pr_sid", 4>>, <<"pr_fname", 16>>, <<"pr_psargs", 80>> >>

elf_siginfo == << <<"si_signo", 4>>, <<"si_code", 4>>, <<"si_errno", 4>> >>

kernel_old_timeval == << <<"tv_sec", 8>>, <<"tv_usec", 8>> >>

elf_prstatus_common ==
    << <<"pr_info", SizeOf(elf_siginfo)>>, <<"pr_cursig", 2>>, <<"_pad1", 2>>,
       <<"pr_sigpend", 8>>, <<"pr_sighold", 8>>, <<"pr_pid", 4>>,
       <<"pr_ppid", 4>>, <<"pr_pgrp", 4>>, <<"pr_sid", 4>>,
       <<"pr_utime", SizeOf(kernel_old_timeval)>>,
       <<"pr_stime", SizeOf(kernel_old_timeval)>>,
       <<"pr_cutime", SizeOf(kernel_old_timeval)>>,
       <<"pr_cstime", SizeOf(kernel_old_timeval)>> >>

elf_gregset_t ==
    << <<"r15", 8>>, <<"r14", 8>>, <<"r13", 8>>, <<"r12", 8>>, <<"bp", 8>>,
       <<"bx", 8>>, <<"r11", 8>>, <<"r10", 8>>, <<"r9", 8>>, <<"r8", 8>>,
       <<"ax", 8>>, <<"cx", 8>>, <<"dx", 8>>, <<"si", 8>>, <<"di", 8>>,
       <<"orig_ax", 8>>, <<"ip", 8>>, <<"cs", 8>>, <<"flags", 8>>,
       <<"sp", 8>>, <<"ss", 8>>, <<"fs_base", 8>>, <<"gs_base", 8>>,
       <<"ds", 8>>, <<"es", 8>>, <<"fs", 8>>, <<"gs", 8>> >>

elf_prstatus ==
    << <<"common", SizeOf(elf_prstatus_common)>>,
       <<"pr_reg", SizeOf(elf_gregset_t)>>, <<"pr_fpvalid", 4>> >>

ELFCLASS64 == 2
ELFDATA2LSB == 1
EV_CURRENT == 1
ELFOSABI_SYSV == 0
ET_CORE == 4
EM_X86_64 == 62
PT_LOAD == 1
PT_NOTE == 4
NT_PRSTATUS == 1
NT_PRPSINFO == 3
\* 0x4649_4c45, little-endian
NT_FILE == <<69, 76, 73, 70>>
\* b"\x7fELF"
ElfMagic == <<127, 69, 76, 70>>
\* b"CORE"
CoreName == <<67, 79, 82, 69>>

\* CType::wrap_error
wrap_error(name, e) == name \o ": " \o e

\* a value of a type T: Debug, a byte slice or an unsigned integer
AsSlice(s) == <<"slice", s>>
AsInt(b) == <<"int", b>>

\* format!("{:?}", v)
Debug(v) == IF v[1] = "slice" THEN DebugSlice(v[2]) ELSE Dec(v[2])

\* expect(): "" for Ok(()), or the message
expect(name, got, expected) ==
    IF got = expected THEN ""
    ELSE "invalid " \o name \o " value: got " \o Debug(got)
             \o ", expected: " \o Debug(expected)

RECURSIVE FirstError(_)
\* the `?` chain: the first check that failed, or ""
FirstError(checks) ==
    IF checks = <<>> THEN ""
    ELSE IF checks[1] # "" THEN checks[1]
    ELSE FirstError(Tail(checks))

\* Elf64_Ehdr::verify with e_machine checked before e_type
Elf64_Ehdr_verify_swapped(d) ==
    LET f(name)   == Field(d, Elf64_Ehdr, name)
        e_ident   == f("e_ident")
        u8(i)     == AsInt(<<e_ident[i]>>)
        int(name) == AsInt(f(name))
        lit(n, w) == AsInt(LE(n, w))
    IN  FirstError(<<
            expect("e_ident.magic", AsSlice(SubSeq(e_ident, 1, 4)),
                   AsSlice(ElfMagic)),
            expect("e_ident.class", u8(5), AsInt(<<ELFCLASS64>>)),
            expect("e_ident.data", u8(6), AsInt(<<ELFDATA2LSB>>)),
            expect("e_ident.version", u8(7), AsInt(<<EV_CURRENT>>)),
            expect("e_ident.osabi", u8(8), AsInt(<<ELFOSABI_SYSV>>)),
            expect("e_machine", int("e_machine"), lit(EM_X86_64, 2)),
            expect("e_type", int("e_type"), lit(ET_CORE, 2)),
            expect("e_version", int("e_version"), lit(EV_CURRENT, 4)),
            expect("e_ehsize", int("e_ehsize"), lit(64, 2)),
            expect("e_phentsize", int("e_phentsize"), lit(56, 2)),
            expect("e_shentsize", int("e_shentsize"), lit(64, 2)) >>)

\* Elf64_Ehdr::verify on the record viewed at d
Elf64_Ehdr_verify(d) ==
    LET f(name)   == Field(d, Elf64_Ehdr, name)
        e_ident   == f("e_ident")
        u8(i)     == AsInt(<<e_ident[i]>>)
        int(name) == AsInt(f(name))
        lit(n, w) == AsInt(LE(n, w))
    IN  FirstError(<<
            expect("e_ident.magic", AsSlice(SubSeq(e_ident, 1, 4)),
                   AsSlice(ElfMagic)),
            expect("e_ident.class", u8(5), AsInt(<<ELFCLASS64>>)),
            expect("e_ident.data", u8(6), AsInt(<<ELFDATA2LSB>>)),
            expect("e_ident.version", u8(7), AsInt(<<EV_CURRENT>>)),
            expect("e_ident.osabi", u8(8), AsInt(<<ELFOSABI_SYSV>>)),
            expect("e_type", int("e_type"), lit(ET_CORE, 2)),
            expect("e_machine", int("e_machine"), lit(EM_X86_64, 2)),
            expect("e_version", int("e_version"), lit(EV_CURRENT, 4)),
            expect("e_ehsize", int("e_ehsize"), lit(64, 2)),
            expect("e_phentsize", int("e_phentsize"), lit(56, 2)),
            expect("e_shentsize", int("e_shentsize"), lit(64, 2)) >>)

\* CType::parse for Elf64_Ehdr: view, then verify
Elf64_Ehdr_parse(d) ==
    IF Len(d) < SizeOf(Elf64_Ehdr) THEN wrap_error("Elf64_Ehdr", NotEnoughData)
    ELSE IF Elf64_Ehdr_verify(d) # ""
         THEN wrap_error("Elf64_Ehdr", Elf64_Ehdr_verify(d))
    ELSE ""

\* From<&Elf64_Ehdr> for Header
HeaderFrom(d) ==
    [ph_offset |-> Widen(Field(d, Elf64_Ehdr, "e_phoff"), 8),
     ph_count  |-> Widen(Field(d, Elf64_Ehdr, "e_phnum"), 8)]

-----------------------------------------------------------------------------
(* Outcomes of a decoding step: a value, a ParseError, or a panic.         *)

Ok(v) == [kind |-> "ok", msg |-> "", val |-> v]
Err(m) == [kind |-> "err", msg |-> m, val |-> <<>>]
Panic(m) == [kind |-> "panic", msg |-> m, val |-> <<>>]

RemainderByZero == "attempt to calculate the remainder with a divisor of zero"
AddOverflow == "attempt to add with overflow"
MulOverflow == "attempt to multiply with overflow"
CapacityOverflow == "capacity overflow"
AllocFailed == "memory allocation failed"
\* format!("{ph:?}") for the derived Debug of ProgramHeader
DebugProgramHeader(ph) ==
    "ProgramHeader { type_: " \o Dec(ph.type_)
        \o ", file_offset: " \o Dec(ph.file_offset)
        \o ", file_size: " \o Dec(ph.file_size)
        \o ", memory_address: " \o Dec(ph.memory_address)
        \o ", memory_size: " \o Dec(ph.memory_size) \o " }"

InvalidFileRange(ph) ==
    "program header has invalid file range: " \o DebugProgramHeader(ph)
SegmentSizeDiffers(file_size, memory_size) ==
    "segment file size (" \o Hex(file_size) \o ") differs from memory size ("
        \o Hex(memory_size) \o ")"
PhOffsetOutOfBounds(ph_offset) ==
    "program header table offset is out of bounds: " \o Hex(ph_offset)
MissingPrpsinfo == "missing note: CORE/NT_PRPSINFO"
MissingFile == "missing note: CORE/NT_FILE"
TooFewPaths == "NT_FILE note contains too few paths"

\* a % d as the build computes it: a zero divisor panics
checked_rem(a, d) ==
    IF d = Zeros(Len(d)) THEN Panic(RemainderByZero) ELSE Ok(RemLE(a, d))

\* a + b on usize: overflow panics when the build checks it, else wraps
usize_add(a, b, checks) ==
    IF AddLE(a, b).carry # 0 /\ checks THEN Panic(AddOverflow)
    ELSE Ok(AddLE(a, b).val)

\* a * b on u64: overflow panics when the build checks it, else wraps
u64_mul(a, b, checks) ==
    IF MulLE(a, b).overflow /\ checks THEN Panic(MulOverflow)
    ELSE Ok(MulLE(a, b).val)

-----------------------------------------------------------------------------
(* elf.rs: the ELF container layer                                         *)

\* Elf64_Phdr::verify on the record viewed at d
Elf64_Phdr_verify(d) ==
    LET p_vaddr == Field(d, Elf64_Phdr, "p_vaddr")
        p_paddr == Field(d, Elf64_Phdr, "p_paddr")
        p_align == Field(d, Elf64_Phdr, "p_align")
        rv == checked_rem(p_vaddr, p_align)
        rp == checked_rem(p_paddr, p_align)
    IN  IF rv.kind = "panic" THEN rv
        ELSE IF rv.val # Zeros(8) THEN Err("unaligned p_vaddr value: " \o Hex(p_vaddr))
        ELSE IF rp.kind = "panic" THEN rp
        ELSE IF rp.val # Zeros(8) THEN Err("unaligned p_paddr value: " \o Hex(p_paddr))
        ELSE Ok(<<>>)

\* From<&Elf64_Phdr> for ProgramHeader
ProgramHeaderFrom(d) ==
    [type_          |-> Field(d, Elf64_Phdr, "p_type"),
     file_offset    |-> Field(d, Elf64_Phdr, "p_offset"),
     file_size      |-> Field(d, Elf64_Phdr, "p_filesz"),
     memory_address |-> Field(d, Elf64_Phdr, "p_vaddr"),
     memory_size    |-> Field(d, Elf64_Phdr, "p_memsz")]

\* View::view_slice: the records that d holds, one after the other
view_slice(d, size) ==
    [i \in 1..(Len(d) \div size) |-> Slice(d, (i - 1) * size, i * size)]

RECURSIVE VerifyAll(_, _)
\* the loop of CType::parse_many: the first record whose verify fails
VerifyAll(objs, i) ==
    IF i > Len(objs) THEN Ok(<<>>)
    ELSE IF Elf64_Phdr_verify(objs[i]).kind = "ok" THEN VerifyAll(objs, i + 1)
    ELSE Elf64_Phdr_verify(objs[i])

\* CType::parse_many for Elf64_Phdr
parse_many(d) ==
    LET objs == view_slice(d, SizeOf(Elf64_Phdr))
        v    == VerifyAll(objs, 1)
    IN  IF v.kind = "ok" THEN Ok(objs)
        ELSE IF v.kind = "err" THEN Err(wrap_error("Elf64_Phdr", v.msg))
        ELSE v

\* CType::parse_n for Elf64_Phdr; count comes from the u16 e_phnum
parse_n(d, count) ==
    LET size == SizeOf(Elf64_Phdr) * ToNat(count)
    IN  IF size > Len(d) THEN Err(wrap_error("Elf64_Phdr", NotEnoughData))
        ELSE parse_many(Slice(d, 0, size))

\* parse_program_headers
parse_program_headers(d, count) ==
    LET phdrs == parse_n(d, count)
    IN  IF phdrs.kind # "ok" THEN phdrs
        ELSE Ok([i \in 1..Len(phdrs.val) |-> ProgramHeaderFrom(phdrs.val[i])])

\* ProgramHeader::get_data; val is <<bytes>> for Some(bytes), <<>> for None
get_data(ph, d, checks) ==
    LET start == ph.file_offset
        end   == usize_add(start, ph.file_size, checks)
    IN  IF end.kind = "panic" THEN end
        ELSE IF LtLE(end.val, start) \/ NatLt(Len(d), end.val) THEN Ok(<<>>)
        ELSE Ok(<<Slice(d, ToNat(start), ToNat(end.val))>>)

\* the padding closure with a full word of padding after an aligned field
padding_full(n) == LE(4 - (n[1] % 4), 8)

\* the padding closure of parse_note
padding(n) == LE((4 - (n[1] % 4)) % 4, 8)

\* parse_note with the header's error wrapped like the reader's errors
parse_note_wrapped(d) ==
    IF Len(d) < SizeOf(Elf64_Nhdr)
    THEN Err("note: " \o NotEnoughData)
    ELSE
    LET d0        == SliceFrom(d, SizeOf(Elf64_Nhdr))
        name_size == Widen(Field(d, Elf64_Nhdr, "n_namesz"), 8)
        desc_size == Widen(Field(d, Elf64_Nhdr, "n_descsz"), 8)
        name      == read_slice(d0, name_size)
        pad1      == read_slice(name.rest, padding(name_size))
        desc      == read_slice(pad1.rest, desc_size)
        pad2      == read_slice(desc.rest, padding(desc_size))
    IN  IF ~name.ok \/ ~pad1.ok \/ ~desc.ok \/ ~pad2.ok
        THEN Err("note: " \o NotEnoughData)
        ELSE Ok(<< [type_ |-> Field(d, Elf64_Nhdr, "n_type"),
                    name  |-> trim_c_string(name.bytes),
                    desc  |-> desc.bytes],
                   pad2.rest >>)

\* parse_note: val is <<note, rest>>
parse_note(d) ==
    IF Len(d) < SizeOf(Elf64_Nhdr)
    THEN Err(wrap_error("Elf64_Nhdr", NotEnoughData))
    ELSE
    LET d0        == SliceFrom(d, SizeOf(Elf64_Nhdr))
        name_size == Widen(Field(d, Elf64_Nhdr, "n_namesz"), 8)
        desc_size == Widen(Field(d, Elf64_Nhdr, "n_descsz"), 8)
        name      == read_slice(d0, name_size)
        pad1      == read_slice(name.rest, padding(name_size))
        desc      == read_slice(pad1.rest, desc_size)
        pad2      == read_slice(desc.rest, padding(desc_size))
    IN  IF ~name.ok \/ ~pad1.ok \/ ~desc.ok \/ ~pad2.ok
        THEN Err("note: " \o NotEnoughData)
        ELSE Ok(<< [type_ |-> Field(d, Elf64_Nhdr, "n_type"),
                    name  |-> trim_c_string(name.bytes),
                    desc  |-> desc.bytes],
                   pad2.rest >>)

RECURSIVE NoteLoop(_)
\* the while loop of parse_notes over one segment's bytes
NoteLoop(note_data) ==
    IF note_data = <<>> THEN Ok(<<>>)
    ELSE LET r == parse_note(note_data)
         IN  IF r.kind # "ok" THEN r
             ELSE LET more == NoteLoop(r.val[2])
                  IN  IF more.kind # "ok" THEN more
                      ELSE Ok(<<r.val[1]>> \o more.val)

RECURSIVE NotesFrom(_, _, _, _)
\* the for loop of parse_notes, from program header i on
NotesFrom(phs, d, checks, i) ==
    IF i > Len(phs) THEN Ok(<<>>)
    ELSE IF phs[i].type_ # LE(PT_NOTE, 4) THEN NotesFrom(phs, d, checks, i + 1)
    ELSE LET note_data == get_data(phs[i], d, checks)
         IN  IF note_data.kind = "panic" THEN note_data
             ELSE IF note_data.val = <<>>
                  THEN Err(InvalidFileRange(phs[i]))
             ELSE LET here == NoteLoop(note_data.val[1])
                  IN  IF here.kind # "ok" THEN here
                      ELSE LET more == NotesFrom(phs, d, checks, i + 1)
                           IN  IF more.kind # "ok" THEN more
                               ELSE Ok(here.val \o more.val)

parse_notes(phs, d, checks) == NotesFrom(phs, d, checks, 1)

\* iter_notes matching on the type alone, whatever the owner name
iter_notes_any_owner(ns, name, type_) ==
    LET hits == SelectSeq(ns, LAMBDA n : n.type_ = type_)
    IN  [i \in 1..Len(hits) |-> hits[i].desc]

\* Elf::iter_notes: the descriptions of the notes matching (name, type_)
RECURSIVE iter_notes(_, _, _)
iter_notes(ns, name, type_) ==
    IF ns = <<>> THEN <<>>
    ELSE IF ns[1].name = name /\ ns[1].type_ = type_
         THEN <<ns[1].desc>> \o iter_notes(Tail(ns), name, type_)
    ELSE iter_notes(Tail(ns), name, type_)

\* iter_program_headers without the filter on the type
iter_program_headers_all(phs, type_) == phs

RECURSIVE iter_program_headers(_, _)
\* Elf::iter_program_headers
iter_program_headers(phs, type_) ==
    IF phs = <<>> THEN <<>>
    ELSE IF phs[1].type_ = type_
         THEN <<phs[1]>> \o iter_program_headers(Tail(phs), type_)
    ELSE iter_program_headers(Tail(phs), type_)

-----------------------------------------------------------------------------
(* core.rs: the core-dump layer                                            *)

\* From<&elf_gregset_t> for Registers; g is the pr_reg bytes
RegistersFrom(g) ==
    LET r(name) == Field(g, elf_gregset_t, name)
    IN  [rax |-> r("ax"), rbx |-> r("bx"), rcx |-> r("cx"), rdx |-> r("dx"),
         rbp |-> r("bp"), rsp |-> r("sp"), rsi |-> r("si"), rdi |-> r("di"),
         r8 |-> r("r8"), r9 |-> r("r9"), r10 |-> r("r10"), r11 |-> r("r11"),
         r12 |-> r("r12"), r13 |-> r("r13"), r14 |-> r("r14"),
         r15 |-> r("r15"), rip |-> r("ip"), rflags |-> r("flags"),
         cs |-> r("cs"), ds |-> r("ds"), ss |-> r("ss"), es |-> r("es"),
         fs |-> r("fs"), gs |-> r("gs"), fs_base |-> r("fs_base"),
         gs_base |-> r("gs_base")]

\* From<&elf_prstatus> for ThreadInfo
ThreadInfoFrom(d) ==
    [pid |-> ToSigned(Field(Field(d, elf_prstatus, "common"),
                            elf_prstatus_common, "pr_pid")),
     registers |-> RegistersFrom(Field(d, elf_prstatus, "pr_reg"))]

\* From<&elf_prpsinfo> for ProcessInfo
ProcessInfoFrom(d) ==
    LET f(name) == Field(d, elf_prpsinfo, name)
    IN  [state      |-> ToSigned(f("pr_state")),
         state_name |-> f("pr_sname")[1],
         zombie     |-> ToSigned(f("pr_zomb")) = 1,
         nice       |-> ToSigned(f("pr_nice")),
         flags      |-> f("pr_flag"),
         uid        |-> ToSigned(f("pr_uid")),
         gid        |-> ToSigned(f("pr_gid")),
         pid        |-> ToSigned(f("pr_pid")),
         ppid       |-> ToSigned(f("pr_ppid")),
         pgrp       |-> ToSigned(f("pr_pgrp")),
         sid        |-> ToSigned(f("pr_sid")),
         file_name  |-> trim_c_string(f("pr_fname")),
         command    |-> trim_c_string(f("pr_psargs"))]

RECURSIVE SegmentsFrom(_, _, _)
\* the for loop of extract_segments over the PT_LOAD headers
SegmentsFrom(phs, d, checks) ==
    IF phs = <<>> THEN Ok(<<>>)
    ELSE
    LET ph     == phs[1]
        vm_end == usize_add(ph.memory_address, ph.memory_size, checks)
        bytes  == get_data(ph, d, checks)
        more   == SegmentsFrom(Tail(phs), d, checks)
    IN  IF ph.memory_size # ph.file_size THEN Err(SegmentSizeDiffers(ph.file_size, ph.memory_size))
        ELSE IF vm_end.kind = "panic" THEN vm_end
        ELSE IF bytes.kind = "panic" THEN bytes
        ELSE IF bytes.val = <<>> THEN Err(InvalidFileRange(ph))
        ELSE IF more.kind # "ok" THEN more
        ELSE Ok(<<[vm_start |-> ph.memory_address,
                   vm_end   |-> vm_end.val,
                   data     |-> bytes.val[1]]>> \o more.val)

extract_segments(phs, d, checks) ==
    SegmentsFrom(iter_program_headers(phs, LE(PT_LOAD, 4)), d, checks)

\* extract_process_info that lets a missing note pass
extract_process_info_lenient(ns) ==
    LET found == iter_notes(ns, CoreName, LE(NT_PRPSINFO, 4))
    IN  IF found = <<>> THEN Ok(<<>>)
        ELSE IF Len(found[1]) < SizeOf(elf_prpsinfo)
             THEN Err(wrap_error("elf_prpsinfo", NotEnoughData))
        ELSE Ok(ProcessInfoFrom(found[1]))

extract_process_info(ns) ==
    LET found == iter_notes(ns, CoreName, LE(NT_PRPSINFO, 4))
    IN  IF found = <<>> THEN Err(MissingPrpsinfo)
        ELSE IF Len(found[1]) < SizeOf(elf_prpsinfo)
             THEN Err(wrap_error("elf_prpsinfo", NotEnoughData))
        ELSE Ok(ProcessInfoFrom(found[1]))

RECURSIVE ThreadsFrom(_)
\* map + collect of extract_thread_infos: the first failure ends it
ThreadsFrom(descs) ==
    IF descs = <<>> THEN Ok(<<>>)
    ELSE IF Len(descs[1]) < SizeOf(elf_prstatus)
         THEN Err(wrap_error("elf_prstatus", NotEnoughData))
    ELSE LET more == ThreadsFrom(Tail(descs))
         IN  IF more.kind # "ok" THEN more
             ELSE Ok(<<ThreadInfoFrom(descs[1])>> \o more.val)

extract_thread_infos(ns) ==
    ThreadsFrom(iter_notes(ns, CoreName, LE(NT_PRSTATUS, 4)))

\* size_of::<FileMapping>(): usize, usize, u64 and a slice reference
FileMappingSize == 8 + 8 + 8 + 16

\* isize::MAX
ISizeMax == <<255, 255, 255, 255, 255, 255, 255, 127>>

RECURSIVE MappingsFrom(_, _, _, _, _)
\* the `for _ in 0..count` loop of extract_file_map, at iteration i;
\* val is <<mappings, rest of the data>>
MappingsFrom(d, count, page_size, checks, i) ==
    IF ~NatLt(i, count) THEN Ok(<<<<>>, d>>)
    ELSE
    LET vm_start == read_u64(d)
        vm_end   == read_u64(vm_start.rest)
        page_idx == read_u64(vm_end.rest)
        offset   == u64_mul(page_idx.bytes, page_size, checks)
        more     == MappingsFrom(page_idx.rest, count, page_size, checks, i + 1)
    IN  IF ~vm_start.ok \/ ~vm_end.ok \/ ~page_idx.ok
        THEN Err("NT_FILE note: " \o NotEnoughData)
        ELSE IF offset.kind = "panic" THEN offset
        ELSE IF more.kind # "ok" THEN more
        ELSE Ok(<< <<[vm_start    |-> vm_start.bytes,
                      vm_end      |-> vm_end.bytes,
                      file_offset |-> offset.val,
                      file_path   |-> <<>>]>> \o more.val[1],
                   more.val[2] >>)

\* the second loop of extract_file_map: one path per mapping, in order
AssignPaths(mappings, paths) ==
    IF Len(paths) < Len(mappings) THEN Err(TooFewPaths)
    ELSE Ok([i \in 1..Len(mappings) |->
                [mappings[i] EXCEPT !.file_path = paths[i]]])

\* Vec::with_capacity(count as usize): the request may exceed isize::MAX
\* bytes (a panic); `fails` says whether the allocator refuses the request
with_capacity(count, fails) ==
    LET bytes == MulLE(count, LE(FileMappingSize, 8))
    IN  IF bytes.overflow \/ LtLE(ISizeMax, bytes.val)
        THEN Panic(CapacityOverflow)
        ELSE IF fails THEN Panic(AllocFailed)
        ELSE Ok(<<>>)

\* extract_file_map
extract_file_map(ns, checks, fails) ==
    LET found     == iter_notes(ns, CoreName, NT_FILE)
        count     == read_u64(found[1])
        page_size == read_u64(count.rest)
        vec       == with_capacity(count.bytes, fails)
        mappings  == MappingsFrom(page_size.rest, count.bytes,
                                  page_size.bytes, checks, 0)
    IN  IF found = <<>> THEN Err(MissingFile)
        ELSE IF ~count.ok \/ ~page_size.ok
             THEN Err("NT_FILE note: " \o NotEnoughData)
        ELSE IF vec.kind # "ok" THEN vec
        ELSE IF mappings.kind # "ok" THEN mappings
        ELSE AssignPaths(mappings.val[1], SplitNul(mappings.val[2]))

\* whether the allocator may refuse a Vec of `count` mappings: a request
\* for more mappings than the input buffer could hold entries for is not
\* backed by the input's own size
MayFailAlloc(ns, d) ==
    LET found == iter_notes(ns, CoreName, NT_FILE)
    IN  /\ found # <<>>
        /\ read_u64(found[1]).ok
        /\ NatLt(Len(d), read_u64(found[1]).bytes)

-----------------------------------------------------------------------------
(* Core::parse, one action per stage.  pc names the stage to run next;     *)
(* "done" is Ok(Core), "err" a ParseError, "panic" an abnormal end.        *)

\* the stage ended with outcome r; on success go on to `next`
Finish(r, next) ==
    /\ pc' = IF r.kind = "ok" THEN next ELSE r.kind
    /\ error' = r.msg

\* Elf::parse, first step: parse_header
ParseHeader ==
    /\ pc = "header"
    /\ LET e == Elf64_Ehdr_parse(data)
       IN  /\ Finish(IF e = "" THEN Ok(<<>>) ELSE Err(e), "phdrs")
           /\ header' = IF e = "" THEN HeaderFrom(data) ELSE header
    /\ UNCHANGED <<data, input, overflow_checks, program_headers, notes,
                   segments, process, threads, file_map>>

\* ParseProgramHeaders that extracts the PT_LOAD segments as soon as the
\* table is read
ParseProgramHeadersAndSegments ==
    /\ pc = "phdrs"
    /\ LET t == IF NatLt(Len(data), header.ph_offset)
                THEN Err(PhOffsetOutOfBounds(header.ph_offset))
                ELSE parse_program_headers(
                         SliceFrom(data, ToNat(header.ph_offset)),
                         header.ph_count)
           s == IF t.kind = "ok"
                THEN extract_segments(t.val, data, overflow_checks) ELSE t
           r == IF s.kind = "ok" THEN t ELSE s
       IN  /\ Finish(r, "notes")
           /\ program_headers' = IF r.kind = "ok" THEN r.val
                                 ELSE program_headers
    /\ UNCHANGED <<data, input, overflow_checks, header, notes, segments,
                   process, threads, file_map>>

\* Elf::parse, second step: the table's bytes and parse_program_headers
ParseProgramHeaders ==
    /\ pc = "phdrs"
    /\ LET r == IF NatLt(Len(data), header.ph_offset)
                THEN Err(PhOffsetOutOfBounds(header.ph_offset))
                ELSE parse_program_headers(
                         SliceFrom(data, ToNat(header.ph_offset)),
                         header.ph_count)
       IN  /\ Finish(r, "notes")
           /\ program_headers' = IF r.kind = "ok" THEN r.val
                                 ELSE program_headers
    /\ UNCHANGED <<data, input, overflow_checks, header, notes, segments,
                   process, threads, file_map>>

\* Elf::parse, third step: parse_notes
ParseNotes ==
    /\ pc = "notes"
    /\ LET r == parse_notes(program_headers, data, overflow_checks)
       IN  /\ Finish(r, "segments")
           /\ notes' = IF r.kind = "ok" THEN r.val ELSE notes
    /\ UNCHANGED <<data, input, overflow_checks, header, program_headers,
                   segments, process, threads, file_map>>

\* Core::parse: segments: extract_segments(&elf)?
ExtractSegments ==
    /\ pc = "segments"
    /\ LET r == extract_segments(program_headers, data, overflow_checks)
       IN  /\ Finish(r, "process")
           /\ segments' = IF r.kind = "ok" THEN r.val ELSE segments
    /\ UNCHANGED <<data, input, overflow_checks, header, program_headers,
                   notes, process, threads, file_map>>

\* Core::parse: process: extract_process_info(&elf)?
ExtractProcessInfo ==
    /\ pc = "process"
    /\ LET r == extract_process_info(notes)
       IN  /\ Finish(r, "threads")
           /\ process' = IF r.kind = "ok" THEN r.val ELSE process
    /\ UNCHANGED <<data, input, overflow_checks, header, program_headers,
                   notes, segments, threads, file_map>>

\* Core::parse: threads: extract_thread_infos(&elf)?
ExtractThreadInfos ==
    /\ pc = "threads"
    /\ LET r == extract_thread_infos(notes)
       IN  /\ Finish(r, "file_map")
           /\ threads' = IF r.kind = "ok" THEN r.val ELSE threads
    /\ UNCHANGED <<data, input, overflow_checks, header, program_headers,
                   notes, segments, process, file_map>>

\* Core::parse: file_map: extract_file_map(&elf)?, then Ok(Self {..})
ExtractFileMap ==
    /\ pc = "file_map"
    /\ \E fails \in (IF MayFailAlloc(notes, data) THEN BOOLEAN ELSE {FALSE}) :
         LET r == extract_file_map(notes, overflow_checks, fails)
         IN  /\ Finish(r, "done")
             /\ file_map' = IF r.kind = "ok" THEN r.val ELSE file_map
    /\ UNCHANGED <<data, input, overflow_checks, header, program_headers,
                   notes, segments, process, threads>>

Next ==
    \/ ParseHeader
    \/ ParseProgramHeaders
    \/ ParseNotes
    \/ ExtractSegments
    \/ ExtractProcessInfo
    \/ ExtractThreadInfos
    \/ ExtractFileMap

-----------------------------------------------------------------------------
(* Input buffers.  An input is described by its ELF header fields and its  *)
(* program headers, each with the bytes its segment holds in the file; the *)
(* buffer is the header, the table and the segments' bytes, in that order. *)

RECURSIVE Flatten(_)
Flatten(ss) == IF ss = <<>> THEN <<>> ELSE ss[1] \o Flatten(Tail(ss))

RECURSIVE SumLen(_, _)
\* the bytes held by the first n segments
SumLen(segs, n) ==
    IF n = 0 THEN 0 ELSE Len(segs[n].content) + SumLen(segs, n - 1)

\* e_ident of an x86-64 System V core file
GoodIdent ==
    ElfMagic \o <<ELFCLASS64, ELFDATA2LSB, EV_CURRENT, ELFOSABI_SYSV>>
             \o Zeros(8)

\* the header of a well-formed core file with phnum program headers
GoodEhdr(phnum) ==
    [e_ident |-> GoodIdent, e_type |-> LE(ET_CORE, 2),
     e_machine |-> LE(EM_X86_64, 2), e_version |-> LE(EV_CURRENT, 4),
     e_entry |-> Zeros(8), e_phoff |-> LE(SizeOf(Elf64_Ehdr), 8),
     e_shoff |-> Zeros(8), e_flags |-> Zeros(4),
     e_ehsize |-> LE(SizeOf(Elf64_Ehdr), 2),
     e_phentsize |-> LE(SizeOf(Elf64_Phdr), 2), e_phnum |-> LE(phnum, 2),
     e_shentsize |-> LE(64, 2), e_shnum |-> Zeros(2),
     e_shstrndx |-> Zeros(2)]

\* a program header and its segment's bytes; p_offset is set by MkInput
Seg(type, vaddr, paddr, align, content, filesz, memsz, recs) ==
    [p_type |-> LE(type, 4), p_flags |-> Zeros(4), p_offset |-> Zeros(8),
     p_vaddr |-> vaddr, p_paddr |-> paddr, p_filesz |-> filesz,
     p_memsz |-> memsz, p_align |-> align, content |-> content,
     recs |-> recs]

\* the input with each segment placed after the table, in table order
MkInput(ehdr, segs) ==
    LET base == SizeOf(Elf64_Ehdr) + SizeOf(Elf64_Phdr) * Len(segs)
    IN  [ehdr |-> ehdr,
         segs |-> [i \in 1..Len(segs) |->
                     [segs[i] EXCEPT !.p_offset =
                         LE(base + SumLen(segs, i - 1), 8)]]]

\* the bytes of an input
Encode(in) ==
    EncStruct(Elf64_Ehdr, in.ehdr)
    \o Flatten([i \in 1..Len(in.segs) |-> EncStruct(Elf64_Phdr, in.segs[i])])
    \o Flatten([i \in 1..Len(in.segs) |-> in.segs[i].content])

\* a note record: header, name, padding to 4, description, padding to 4
EncNote(rec) ==
    EncStruct(Elf64_Nhdr, [n_namesz |-> LE(Len(rec.name), 4),
                           n_descsz |-> LE(Len(rec.desc), 4),
                           n_type   |-> rec.type_])
    \o rec.name \o Zeros((4 - (Len(rec.name) % 4)) % 4)
    \o rec.desc \o Zeros((4 - (Len(rec.desc) % 4)) % 4)

\* a PT_NOTE segment holding the records recs, its last `cut` bytes outside
\* the segment
NoteSeg(recs, cut, align) ==
    LET content == Flatten([i \in 1..Len(recs) |-> EncNote(recs[i])])
    IN  Seg(PT_NOTE, Zeros(8), Zeros(8), align, content,
            LE(Len(content) - cut, 8), Zeros(8), recs)

\* a PT_LOAD segment of n bytes at vaddr
LoadSeg(vaddr, align, n) ==
    Seg(PT_LOAD, vaddr, Zeros(8), align, [i \in 1..n |-> 160 + i],
        LE(n, 8), LE(n, 8), <<>>)

\* an i32 as 4 little-endian bytes (two's complement)
EncI32(n) ==
    IF n >= 0 THEN LE(n, 4)
    ELSE LET m == LE((n + 2147483647) + 1, 4)
         IN  [m EXCEPT ![4] = m[4] + 128]

\* a register file whose registers hold base+1, base+2, ...
Regs(base) ==
    [rax |-> LE(base + 1, 8), rbx |-> LE(base + 2, 8),
     rcx |-> LE(base + 3, 8), rdx |-> LE(base + 4, 8),
     rbp |-> LE(base + 5, 8), rsp |-> LE(base + 6, 8),
     rsi |-> LE(base + 7, 8), rdi |-> LE(base + 8, 8),
     r8 |-> LE(base + 9, 8), r9 |-> LE(base + 10, 8),
     r10 |-> LE(base + 11, 8), r11 |-> LE(base + 12, 8),
     r12 |-> LE(base + 13, 8), r13 |-> LE(base + 14, 8),
     r14 |-> LE(base + 15, 8), r15 |-> LE(base + 16, 8),
     rip |-> LE(base + 17, 8), rflags |-> LE(base + 18, 8),
     cs |-> LE(base + 19, 8), ds |-> LE(base + 20, 8),
     ss |-> LE(base + 21, 8), es |-> LE(base + 22, 8),
     fs |-> LE(base + 23, 8), gs |-> LE(base + 24, 8),
     fs_base |-> <<base, 0, 0, 0, 0, 0, 128, 255>>,
     gs_base |-> <<255, 255, 255, 255, 255, 255, 255, base>>]

\* the on-disk register block of a register file (orig_ax is not kept)
EncGregset(regs) ==
    EncStruct(elf_gregset_t,
        [r15 |-> regs.r15, r14 |-> regs.r14, r13 |-> regs.r13,
         r12 |-> regs.r12, bp |-> regs.rbp, bx |-> regs.rbx,
         r11 |-> regs.r11, r10 |-> regs.r10, r9 |-> regs.r9,
         r8 |-> regs.r8, ax |-> regs.rax, cx |-> regs.rcx,
         dx |-> regs.rdx, si |-> regs.rsi, di |-> regs.rdi,
         orig_ax |-> LE(231, 8), ip |-> regs.rip, cs |-> regs.cs,
         flags |-> regs.rflags, sp |-> regs.rsp, ss |-> regs.ss,
         fs_base |-> regs.fs_base, gs_base |-> regs.gs_base,
         ds |-> regs.ds, es |-> regs.es, fs |-> regs.fs, gs |-> regs.gs])

\* an elf_prstatus description of thread pid with register file regs
PrstatusDesc(pid, regs) ==
    EncStruct(elf_prstatus,
        [common |-> EncStruct(elf_prstatus_common,
            [pr_info |-> LE(11, 4) \o Zeros(8), pr_cursig |-> LE(11, 2),
             _pad1 |-> Zeros(2), pr_sigpend |-> Zeros(8),
             pr_sighold |-> Zeros(8), pr_pid |-> EncI32(pid),
             pr_ppid |-> LE(1, 4), pr_pgrp |-> LE(7, 4),
             pr_sid |-> LE(7, 4), pr_utime |-> Zeros(16),
             pr_stime |-> Zeros(16), pr_cutime |-> Zeros(16),
             pr_cstime |-> Zeros(16)]),
         pr_reg |-> EncGregset(regs),
         pr_fpvalid |-> LE(1, 4)])

\* an elf_prpsinfo description
PrpsinfoDesc(pid, fname, psargs) ==
    EncStruct(elf_prpsinfo,
        [pr_state |-> <<0>>, pr_sname |-> <<82>>, pr_zomb |-> <<0>>,
         pr_nice |-> <<0>>, _pad1 |-> Zeros(4), pr_flag |-> LE(4194560, 8),
         pr_uid |-> LE(1000, 4), pr_gid |-> LE(1000, 4),
         pr_pid |-> EncI32(pid), pr_ppid |-> LE(1, 4), pr_pgrp |-> LE(7, 4),
         pr_sid |-> LE(7, 4), pr_fname |-> fname, pr_psargs |-> psargs])

\* an NT_FILE description: count, page_size, the entries, the path block
FileDesc(count, page_size, entries, paths) ==
    count \o page_size
    \o Flatten([i \in 1..Len(entries) |->
                   entries[i].vm_start \o entries[i].vm_end
                   \o entries[i].page_idx])
    \o paths

\* b"CORE\0", the owner name as the kernel writes it
CoreNameNul == CoreName \o <<0>>

\* a note record of the input
Rec(type_, name, desc) == [type_ |-> type_, name |-> name, desc |-> desc]

\* b"init" in a 16-byte field, b"init -x" in an 80-byte field
InitFname == <<105, 110, 105, 116>> \o Zeros(12)
InitPsargs == <<105, 110, 105, 116, 32, 45, 120>> \o Zeros(73)

PrpsinfoRec == Rec(LE(NT_PRPSINFO, 4), CoreNameNul,
                   PrpsinfoDesc(100, InitFname, InitPsargs))

PrstatusRec(pid, regs) ==
    Rec(LE(NT_PRSTATUS, 4), CoreNameNul, PrstatusDesc(pid, regs))

\* an NT_FILE note with no mappings
EmptyFileRec == Rec(NT_FILE, CoreNameNul,
                    FileDesc(Zeros(8), LE(4096, 8), <<>>, <<>>))

\* the notes every well-formed core file holds
MainNotes == NoteSeg(<<PrpsinfoRec, EmptyFileRec>>, 0, LE(4, 8))

-----------------------------------------------------------------------------
(* Inputs for the ELF header checks: a well-formed file whose header has   *)
(* some enforced fields set wrong and some other fields set arbitrarily.   *)

\* at most this many enforced header fields are wrong at once
MaxBadFields == 2

\* the enforced fields, in the order Elf64_Ehdr::verify checks them
EnforcedFields ==
    <<"e_ident.magic", "e_ident.class", "e_ident.data", "e_ident.version",
      "e_ident.osabi", "e_type", "e_machine", "e_version", "e_ehsize",
      "e_phentsize", "e_shentsize">>

\* header fields that Elf64_Ehdr::verify does not look at
OtherFields ==
    {"e_ident.pad", "e_entry", "e_shoff", "e_flags", "e_shnum", "e_shstrndx"}

\* b with one byte changed: its first (v = 1) or its last (v = 2)
Corrupt(b, v) ==
    LET i == IF v = 1 THEN 1 ELSE Len(b)
    IN  [b EXCEPT ![i] = (b[i] + 255) % 256]

\* the header h with field `name` changed
Damage(h, name, v) ==
    LET id == h.e_ident
        ident(lo, hi) ==
            [h EXCEPT !.e_ident = SubSeq(id, 1, lo - 1)
                                  \o Corrupt(SubSeq(id, lo, hi), v)
                                  \o SubSeq(id, hi + 1, 16)]
    IN  CASE name = "e_ident.magic"   -> ident(1, 4)
          [] name = "e_ident.class"   -> ident(5, 5)
          [] name = "e_ident.data"    -> ident(6, 6)
          [] name = "e_ident.version" -> ident(7, 7)
          [] name = "e_ident.osabi"   -> ident(8, 8)
          [] name = "e_ident.pad"     -> ident(9, 16)
          [] OTHER -> [h EXCEPT ![name] = Corrupt(h[name], v)]

RECURSIVE DamageAll(_, _, _)
DamageAll(h, names, v) ==
    IF names = {} THEN h
    ELSE LET n == CHOOSE x \in names : TRUE
         IN  DamageAll(Damage(h, n, v), names \ {n}, v)

BadFieldSets ==
    {b \in SUBSET {EnforcedFields[i] : i \in 1..Len(EnforcedFields)} :
        Cardinality(b) <= MaxBadFields}

HeaderChoices ==
    {<<b, o, v>> \in BadFieldSets \X (SUBSET OtherFields) \X {1, 2} :
        /\ Cardinality(o) \in {0, 1, Cardinality(OtherFields)}
        /\ (Cardinality(o) = 1 => b = {})}

InputsHeader ==
    {MkInput(DamageAll(GoodEhdr(2), c[1] \cup c[2], c[3]),
             <<LoadSeg(LE(4096, 8), LE(4096, 8), 4), MainNotes>>) :
        c \in HeaderChoices}

-----------------------------------------------------------------------------
(* Program header family: tables of up to MaxPh headers drawn from a       *)
(* palette, followed by the PT_NOTE segment of a valid core.               *)

MaxPh == 2

\* u64::MAX
U64Max == [i \in 1..8 |-> 255]

SegPalette ==
    { LoadSeg(LE(4096, 8), LE(4096, 8), 4),
      LoadSeg(LE(8192, 8), LE(4096, 8), 2),
      \* PT_LOAD whose memory size exceeds its file size
      Seg(PT_LOAD, LE(4096, 8), Zeros(8), LE(4096, 8), <<1, 2, 3, 4>>,
          LE(4, 8), LE(8, 8), <<>>),
      \* PT_LOAD whose last byte lies beyond the end of the address space
      Seg(PT_LOAD, U64Max, Zeros(8), LE(1, 8), <<5, 6>>,
          LE(2, 8), LE(2, 8), <<>>),
      \* another type (PT_PHDR) whose sizes differ
      Seg(6, LE(4096, 8), Zeros(8), LE(4096, 8), <<7, 8, 9, 10>>,
          LE(4, 8), LE(8, 8), <<>>),
      \* PT_LOAD whose file range ends beyond the file
      Seg(PT_LOAD, LE(4096, 8), Zeros(8), LE(4096, 8), <<11, 12>>,
          LE(1048576, 8), LE(1048576, 8), <<>>),
      \* PT_LOAD with no alignment
      Seg(PT_LOAD, LE(4096, 8), Zeros(8), Zeros(8), <<13, 14>>,
          LE(2, 8), LE(2, 8), <<>>) }

\* the sequences of at most n elements of S
SeqsUpTo(S, n) == UNION {[1..k -> S] : k \in 0..n}

InputsSegments ==
    {MkInput(GoodEhdr(Len(s) + 1), s \o <<MainNotes>>) :
        s \in SeqsUpTo(SegPalette, MaxPh)}

-----------------------------------------------------------------------------
(* NT_FILE family: a valid core whose NT_FILE note declares up to MaxMaps  *)
(* mappings, with page sizes, page indices and path blocks from palettes.  *)

MaxMaps == 3

PageSizes == {Zeros(8), LE(3, 8), LE(4096, 8), <<0, 0, 0, 0, 0, 0, 0, 128>>}

\* page indices; the third times 3 is 2^64 + 2
PageIdxs ==
    << Zeros(8), LE(1, 8), <<86, 85, 85, 85, 85, 85, 85, 85>>, LE(2, 8) >>

\* path blocks: "", "a\0", "a\0b\0", "a\0b\0c\0", "a\0b", "\0\0"
PathBlocks ==
    { <<>>, <<97, 0>>, <<97, 0, 98, 0>>, <<97, 0, 98, 0, 99, 0>>,
      <<97, 0, 98>>, <<0, 0>> }

\* n entries whose page indices run through PageIdxs from position k
FileEntries(n, k) ==
    [i \in 1..n |-> [vm_start |-> LE(4096 * i, 8),
                     vm_end   |-> LE(4096 * i + 4096, 8),
                     page_idx |-> PageIdxs[((k + i - 2) % Len(PageIdxs)) + 1]]]

InputsFile ==
    {MkInput(GoodEhdr(1),
             <<NoteSeg(<<PrpsinfoRec,
                         Rec(NT_FILE, CoreNameNul,
                             FileDesc(LE(n, 8), ps, FileEntries(n, k), pb))>>,
                       0, LE(4, 8))>>) :
        <<n, ps, k, pb>> \in (0..MaxMaps) \X PageSizes
                              \X (1..Len(PageIdxs)) \X PathBlocks}

-----------------------------------------------------------------------------
(* Note layout family: a PT_NOTE segment of up to MaxRecs small records    *)
(* of every name and description size modulo 4, before or after the        *)
(* PT_NOTE segment of a valid core.                                        *)

MaxRecs == 2

SmallRecs ==
    { Rec(LE(7, 4), CoreNameNul, <<1, 2, 3>>),
      Rec(LE(1, 4), <<71, 78, 85, 0>>, <<4, 5, 6, 7>>),
      Rec(LE(2, 4), <<65, 66>>, <<>>),
      Rec(<<0, 0, 0, 128>>, <<65, 0, 66, 0, 120, 121, 122>>,
          <<8, 9, 10, 11, 12, 13>>),
      Rec(LE(3, 4), <<>>, <<14, 15, 16, 17, 18>>) }

InputsNotes ==
    {MkInput(GoodEhdr(2),
             IF first THEN <<NoteSeg(s, 0, LE(4, 8)), MainNotes>>
             ELSE <<MainNotes, NoteSeg(s, 0, LE(4, 8))>>) :
        <<s, first>> \in SeqsUpTo(SmallRecs, MaxRecs) \X BOOLEAN}

-----------------------------------------------------------------------------
(* Truncation family: a PT_NOTE segment of up to MaxPrefix whole records   *)
(* and a last record of which the segment leaves out the last `cut` bytes. *)

MaxPrefix == 1

InputsTruncated ==
    {MkInput(GoodEhdr(2),
             <<NoteSeg(c[1] \o <<c[2]>>, c[3], LE(4, 8)), MainNotes>>) :
        c \in UNION {{<<p, r, cut>> : cut \in 0..(Len(EncNote(r)) - 1)} :
                        <<p, r>> \in SeqsUpTo(SmallRecs, MaxPrefix)
                                        \X SmallRecs}}

-----------------------------------------------------------------------------
(* Core note family: the required notes present or absent, and up to       *)
(* MaxExtra further notes, in one PT_NOTE segment or spread over two.      *)

MaxExtra == 2

\* a CORE/NT_PRSTATUS record together with the thread it describes
ThreadRec(name, pid, base) ==
    [type_ |-> LE(NT_PRSTATUS, 4), name |-> name,
     desc |-> PrstatusDesc(pid, Regs(base)), pid |-> pid, regs |-> Regs(base)]

ExtraRecs ==
    { ThreadRec(CoreNameNul, 101, 16),
      \* the owner name without its terminator, a negative pid
      ThreadRec(CoreName, -7, 64),
      \* a thread status under another owner name ("GNU\0")
      ThreadRec(<<71, 78, 85, 0>>, 103, 32),
      \* another type under the owner CORE (NT_AUXV)
      Rec(LE(6, 4), CoreNameNul, <<1, 2, 3, 4, 5, 6, 7, 8>>),
      \* a thread status that is too short
      Rec(LE(NT_PRSTATUS, 4), CoreNameNul, <<1, 2, 3, 4, 5, 6, 7, 8, 9, 10>>) }

BaseRecs ==
    { <<>>, <<PrpsinfoRec>>, <<EmptyFileRec>>, <<PrpsinfoRec, EmptyFileRec>> }

\* the program headers for the required notes b and the further notes s
CoreLayout(b, s, layout) ==
    CASE layout = 1 ->
           IF b \o s = <<>> THEN <<>> ELSE <<NoteSeg(b \o s, 0, LE(4, 8))>>
      [] layout = 2 ->
           << NoteSeg(s, 0, LE(4, 8)),
              LoadSeg(LE(4096, 8), LE(4096, 8), 4),
              NoteSeg(b, 0, LE(1, 8)) >>
      [] layout = 3 ->
           << NoteSeg(SubSeq(s, 1, 1), 0, LE(4, 8)),
              NoteSeg(Tail(s) \o b, 0, LE(4, 8)) >>

InputsCore ==
    {MkInput(GoodEhdr(Len(CoreLayout(c[1], c[2], c[3]))),
             CoreLayout(c[1], c[2], c[3])) :
        c \in {x \in BaseRecs \X SeqsUpTo(ExtraRecs, MaxExtra) \X (1..3) :
                  x[3] = 3 => x[2] # <<>>}}

-----------------------------------------------------------------------------
(* Process information family: a valid core whose pr_fname and pr_psargs   *)
(* hold a text of up to MaxText bytes, or one that fills the field or all  *)
(* but its last byte, followed by NUL and then zeros or further text.      *)

MaxText == 2

\* a field of w bytes: k text bytes, then (when k < w) NUL and a tail that
\* is all zeros or holds further text and NULs
TextField(w, k, tail) ==
    [i \in 1..w |-> IF i <= k THEN 96 + (i % 26) + 1
                    ELSE IF i = k + 1 \/ ~tail THEN 0
                    ELSE IF i % 3 = 0 THEN 0 ELSE 64 + (i % 26) + 1]

TextFields(w) ==
    {TextField(w, k, tail) :
        <<k, tail>> \in ((0..MaxText) \cup {w - 1, w}) \X BOOLEAN}

InputsProcess ==
    {MkInput(GoodEhdr(1),
             <<NoteSeg(<<Rec(LE(NT_PRPSINFO, 4), CoreNameNul,
                             PrpsinfoDesc(100, fname, psargs)),
                         EmptyFileRec>>, 0, LE(4, 8))>>) :
        <<fname, psargs>> \in TextFields(16) \X TextFields(80)}

-----------------------------------------------------------------------------
(* File range family: a valid core with one more program header, PT_LOAD   *)
(* or PT_NOTE, before or after the PT_NOTE segment, whose p_offset and     *)
(* p_filesz are then set to values at, around and far beyond the file end. *)

MaxShift == 1

\* the further program header: a PT_LOAD of four bytes at address 0, or a
\* PT_NOTE with one record
RangeSegs ==
    { Seg(PT_LOAD, Zeros(8), Zeros(8), LE(4096, 8), <<21, 22, 23, 24>>,
          LE(4, 8), LE(4, 8), <<>>),
      NoteSeg(<<Rec(LE(7, 4), CoreNameNul, <<1, 2, 3>>)>>, 0, LE(4, 8)) }

\* 2^63
U64Half == <<0, 0, 0, 0, 0, 0, 0, 128>>

\* the offsets tried for a header whose own offset is `own`, in a file of
\* n bytes
RangeOffsets(own, n) ==
    {own, U64Half}
    \cup {LE(n - 1 + d, 8) : d \in 0..MaxShift}
    \cup {SubLE(U64Max, LE(d, 8)) : d \in 0..MaxShift}

\* the sizes tried for a header whose own size is `own`
RangeSizes(own) ==
    {own, U64Half, U64Max, LE(1048576, 8)}
    \cup {LE(d, 8) : d \in 0..(MaxShift + 1)}

\* the input `in` with the file range of its program header i replaced;
\* a PT_LOAD header keeps p_memsz = p_filesz
WithRange(in, i, off, size) ==
    [in EXCEPT !.segs[i].p_offset = off,
               !.segs[i].p_filesz = size,
               !.segs[i].p_memsz =
                   IF in.segs[i].p_type = LE(PT_LOAD, 4) THEN size ELSE @]

\* the valid inputs of the family, with the position of the further header
RangeBases ==
    {<<MkInput(GoodEhdr(2), IF first THEN <<s, MainNotes>>
                            ELSE <<MainNotes, s>>),
       IF first THEN 1 ELSE 2>> :
        <<s, first>> \in RangeSegs \X BOOLEAN}

InputsRange ==
    UNION {{WithRange(b[1], b[2], off, size) :
               <<off, size>> \in
                   RangeOffsets(b[1].segs[b[2]].p_offset, Len(Encode(b[1])))
                   \X RangeSizes(b[1].segs[b[2]].p_filesz)} :
           b \in RangeBases}

-----------------------------------------------------------------------------
(* Count family: a valid core whose NT_FILE description is cut short, or   *)
(* holds up to MaxEntries entries under a declared count that is at,       *)
(* above or far above the number of entries.                               *)

MaxEntries == 2

\* the largest count whose Vec stays within isize::MAX bytes, the next
\* count, 2^32, 2^63 and 2^64 - 1
HugeCounts ==
    { <<51, 51, 51, 51, 51, 51, 51, 3>>, <<52, 51, 51, 51, 51, 51, 51, 3>>,
      <<0, 0, 0, 0, 1, 0, 0, 0>>, U64Half, U64Max }

DeclaredCounts == {LE(k, 8) : k \in 0..(MaxEntries + 1)} \cup HugeCounts

\* what follows the entries: nothing, or 23 bytes with two NULs
CountTails == {<<>>, [i \in 1..23 |-> IF i % 8 = 0 THEN 0 ELSE 97]}

\* the descriptions: whole ones, and one cut inside count, after count,
\* and inside page_size
CountDescs ==
    {FileDesc(c, LE(4096, 8), FileEntries(n, 1), t) :
        <<c, n, t>> \in DeclaredCounts \X (0..MaxEntries) \X CountTails}
    \cup {SubSeq(FileDesc(LE(1, 8), LE(4096, 8), FileEntries(1, 1), <<>>),
                 1, k) : k \in {0, 7, 8, 15}}

InputsCount ==
    {MkInput(GoodEhdr(1),
             <<NoteSeg(<<PrpsinfoRec, Rec(NT_FILE, CoreNameNul, d)>>,
                       0, LE(4, 8))>>) : d \in CountDescs}

-----------------------------------------------------------------------------
(* Stage family: a core of five program headers (two PT_LOAD, two PT_NOTE, *)
(* one of another type) with a fault planted in up to MaxFaults of the     *)
(* seven stages of the parse, or in all of them; the PT_LOAD headers come  *)
(* before or after the PT_NOTE headers.                                    *)

MaxFaults == 2

StageNames ==
    {"header", "phdrs", "notes", "segments", "process", "threads", "file_map"}

FaultSets ==
    {f \in SUBSET StageNames : Cardinality(f) <= MaxFaults \/ f = StageNames}

\* the program headers with the faults f planted: both PT_LOAD headers
\* with a memory size above the file size; the CORE/NT_PRPSINFO note
\* absent; the CORE/NT_PRSTATUS note too short; the CORE/NT_FILE note
\* absent; the second PT_NOTE segment ending two bytes early; the last
\* header (PT_PHDR) at an odd address
StageSegs(f, loads_first) ==
    LET loads == << Seg(PT_LOAD, LE(4096, 8), Zeros(8), LE(4096, 8),
                        <<1, 2, 3, 4>>, LE(4, 8),
                        IF "segments" \in f THEN LE(8, 8) ELSE LE(4, 8),
                        <<>>),
                    Seg(PT_LOAD, LE(8192, 8), Zeros(8), LE(4096, 8),
                        <<5, 6>>, LE(2, 8),
                        IF "segments" \in f THEN LE(6, 8) ELSE LE(2, 8),
                        <<>>) >>
        status == IF "threads" \in f
                  THEN Rec(LE(NT_PRSTATUS, 4), CoreNameNul, <<1, 2, 3, 4, 5>>)
                  ELSE ThreadRec(CoreNameNul, 101, 16)
        main  == NoteSeg((IF "process" \in f THEN <<>> ELSE <<PrpsinfoRec>>)
                         \o <<status>>
                         \o (IF "file_map" \in f THEN <<>>
                             ELSE <<EmptyFileRec>>),
                         0, LE(4, 8))
        more  == NoteSeg(<<Rec(LE(7, 4), CoreNameNul, <<1, 2, 3>>)>>,
                         IF "notes" \in f THEN 2 ELSE 0, LE(4, 8))
        other == Seg(6, IF "phdrs" \in f THEN LE(1, 8) ELSE LE(4096, 8),
                     Zeros(8), LE(4096, 8), <<7, 8>>, LE(2, 8), LE(5, 8),
                     <<>>)
    IN  IF loads_first THEN loads \o <<main, more, other>>
        ELSE <<main, more>> \o loads \o <<other>>

InputsStages ==
    {MkInput(IF "header" \in f
             THEN Damage(GoodEhdr(Len(StageSegs(f, lf))), "e_machine", 1)
             ELSE GoodEhdr(Len(StageSegs(f, lf))),
             StageSegs(f, lf)) :
        <<f, lf>> \in FaultSets \X BOOLEAN}

-----------------------------------------------------------------------------
(* Specifications: the decoder run on each input of a family.              *)

InitWith(inputs) ==
    /\ input \in inputs
    /\ data = Encode(input)
    /\ overflow_checks \in BOOLEAN
    /\ pc = "header"
    /\ error = ""
    /\ header = <<>>
    /\ program_headers = <<>>
    /\ notes = <<>>
    /\ segments = <<>>
    /\ process = <<>>
    /\ threads = <<>>
    /\ file_map = <<>>

InitHeader == InitWith(InputsHeader)
SpecHeader == InitHeader /\ [][Next]_vars

InitSegments == InitWith(InputsSegments)
SpecSegments == InitSegments /\ [][Next]_vars

InitFile == InitWith(InputsFile)
SpecFile == InitFile /\ [][Next]_vars

InitNotes == InitWith(InputsNotes)
SpecNotes == InitNotes /\ [][Next]_vars

InitTruncated == InitWith(InputsTruncated)
SpecTruncated == InitTruncated /\ [][Next]_vars

InitCore == InitWith(InputsCore)
SpecCore == InitCore /\ [][Next]_vars

InitProcess == InitWith(InputsProcess)
SpecProcess == InitProcess /\ [][Next]_vars

InitRange == InitWith(InputsRange)
SpecRange == InitRange /\ [][Next]_vars

InitCount == InitWith(InputsCount)
SpecCount == InitCount /\ [][Next]_vars

InitStages == InitWith(InputsStages)
SpecStages == InitStages /\ [][Next]_vars

-----------------------------------------------------------------------------
(* The claims.                                                             *)

\* whether an enforced field of the header h holds the value required of it
FieldOk(h, name) ==
    CASE name = "e_ident.magic"   -> SubSeq(h.e_ident, 1, 4) = <<127, 69, 76, 70>>
      [] name = "e_ident.class"   -> h.e_ident[5] = 2
      [] name = "e_ident.data"    -> h.e_ident[6] = 1
      [] name = "e_ident.version" -> h.e_ident[7] = 1
      [] name = "e_ident.osabi"   -> h.e_ident[8] = 0
      [] name = "e_type"          -> h.e_type = <<4, 0>>
      [] name = "e_machine"       -> h.e_machine = <<62, 0>>
      [] name = "e_version"       -> h.e_version = <<1, 0, 0, 0>>
      [] name = "e_ehsize"        -> h.e_ehsize = <<64, 0>>
      [] name = "e_phentsize"     -> h.e_phentsize = <<56, 0>>
      [] name = "e_shentsize"     -> h.e_shentsize = <<64, 0>>

\* the enforced fields of h that are wrong, as positions in the check order
BadPositions(h) ==
    {i \in 1..Len(EnforcedFields) : ~FieldOk(h, EnforcedFields[i])}

\* the first wrong field of h in the check order
FirstBad(h) ==
    EnforcedFields[CHOOSE i \in BadPositions(h) :
                       \A j \in BadPositions(h) : i <= j]

\* the value an enforced field of h holds, as the error message shows it
GotText(h, name) ==
    CASE name = "e_ident.magic"   -> DebugSlice(SubSeq(h.e_ident, 1, 4))
      [] name = "e_ident.class"   -> ToString(h.e_ident[5])
      [] name = "e_ident.data"    -> ToString(h.e_ident[6])
      [] name = "e_ident.version" -> ToString(h.e_ident[7])
      [] name = "e_ident.osabi"   -> ToString(h.e_ident[8])
      [] name = "e_type"          -> Dec(h.e_type)
      [] name = "e_machine"       -> Dec(h.e_machine)
      [] name = "e_version"       -> Dec(h.e_version)
      [] name = "e_ehsize"        -> Dec(h.e_ehsize)
      [] name = "e_phentsize"     -> Dec(h.e_phentsize)
      [] name = "e_shentsize"     -> Dec(h.e_shentsize)

\* the value required of an enforced field, as the error message shows it
RequiredText(name) ==
    CASE name = "e_ident.magic"   -> "[127, 69, 76, 70]"
      [] name = "e_ident.class"   -> "2"
      [] name = "e_ident.data"    -> "1"
      [] name = "e_ident.version" -> "1"
      [] name = "e_ident.osabi"   -> "0"
      [] name = "e_type"          -> "4"
      [] name = "e_machine"       -> "62"
      [] name = "e_version"       -> "1"
      [] name = "e_ehsize"        -> "64"
      [] name = "e_phentsize"     -> "56"
      [] name = "e_shentsize"     -> "64"

\* the error for the enforced field `name` of the header h
HeaderError(h, name) ==
    "Elf64_Ehdr: invalid " \o name \o " value: got " \o GotText(h, name)
        \o ", expected: " \o RequiredText(name)

\* the header stage rejected the input
HeaderRejected ==
    /\ pc = "err"
    /\ \/ error = "Elf64_Ehdr: not enough data"
       \/ \E i \in 1..Len(EnforcedFields) :
              error = HeaderError(input.ehdr, EnforcedFields[i])

\* C7: on a buffer of at least 64 bytes, once the header has been decoded:
\* the header is accepted exactly when all eleven enforced fields hold their
\* required values, whatever the other header fields hold; otherwise the
\* parse fails with "Elf64_Ehdr: invalid <field> value" for the first wrong
\* field in the check order (the message goes on with the value found and
\* the value expected).
C7_HeaderChecks ==
    (pc # "header" /\ Len(data) >= 64) =>
        /\ (BadPositions(input.ehdr) = {}) <=> ~HeaderRejected
        /\ BadPositions(input.ehdr) # {} =>
              /\ pc = "err"
              /\ error = HeaderError(input.ehdr, FirstBad(input.ehdr))

\* C7 witness: two enforced fields are wrong, neither the magic, and the
\* error names the first of them
C7_Witness ==
    /\ pc = "err"
    /\ Cardinality(BadPositions(input.ehdr)) = 2
    /\ FieldOk(input.ehdr, "e_ident.magic")
    /\ error = "Elf64_Ehdr: invalid e_machine value: got 61, expected: 62"
    /\ ~FieldOk(input.ehdr, "e_shentsize")
    /\ input.ehdr.e_shnum # <<0, 0>>


\* the PT_LOAD program headers of the input, in table order
LoadsOf(in) == SelectSeq(in.segs, LAMBDA s : s.p_type = <<1, 0, 0, 0>>)

\* C1: on success, segments[i] is the i-th PT_LOAD program header in table
\* order: vm_start = p_vaddr, data = input[p_offset .. p_offset + p_filesz],
\* and vm_end is the true (unwrapped) sum vm_start + data.len().
C1_SegmentsNoWrap ==
    pc = "done" =>
        LET loads == LoadsOf(input) IN
        /\ Len(segments) = Len(loads)
        /\ \A i \in 1..Len(loads) :
              LET s   == segments[i]
                  sum == AddLE(s.vm_start, LE(Len(s.data), 8))
              IN  /\ s.vm_start = loads[i].p_vaddr
                  /\ s.data = Slice(data, ToNat(loads[i].p_offset),
                                    ToNat(loads[i].p_offset)
                                        + ToNat(loads[i].p_filesz))
                  /\ sum.carry = 0
                  /\ s.vm_end = sum.val


\* the program header s of the input is aligned as Elf64_Phdr requires
Aligned(s) ==
    /\ s.p_align # Zeros(8)
    /\ RemLE(s.p_vaddr, s.p_align) = Zeros(8)
    /\ RemLE(s.p_paddr, s.p_align) = Zeros(8)

\* the file range and the address range of the program header s exist
SoundRanges(s) ==
    /\ AddLE(s.p_offset, s.p_filesz).carry = 0
    /\ ~NatLt(Len(data), AddLE(s.p_offset, s.p_filesz).val)
    /\ AddLE(s.p_vaddr, s.p_memsz).carry = 0

\* positions of the PT_LOAD program headers whose two sizes differ
Mismatches(in) ==
    {i \in 1..Len(in.segs) : /\ in.segs[i].p_type = <<1, 0, 0, 0>>
                             /\ in.segs[i].p_filesz # in.segs[i].p_memsz}

\* the container is well-formed up to the PT_LOAD headers whose sizes differ
OtherwiseWellFormed(in) ==
    /\ BadPositions(in.ehdr) = {}
    /\ \A i \in 1..Len(in.segs) :
          /\ Aligned(in.segs[i])
          /\ (in.segs[i].p_type = <<1, 0, 0, 0>> /\ i \notin Mismatches(in))
                => SoundRanges(in.segs[i])

\* the error message for the sizes of the program header s
SizeError(s) ==
    "segment file size (" \o Hex(s.p_filesz) \o ") differs from memory size ("
        \o Hex(s.p_memsz) \o ")"

\* C2: once the segments have been extracted from an otherwise well-formed
\* container, a PT_LOAD program header with p_filesz # p_memsz makes the
\* parse fail with "segment file size (..) differs from memory size (..)"
\* (for the first such header) and no Core; and that error only ever comes
\* from a PT_LOAD header, never from a header of another type.
C2_SizeMismatch ==
    pc \notin {"header", "phdrs", "notes", "segments"} =>
        /\ (OtherwiseWellFormed(input) /\ Mismatches(input) # {}) =>
              /\ pc = "err"
              /\ error = SizeError(input.segs[
                     CHOOSE i \in Mismatches(input) :
                         \A j \in Mismatches(input) : i <= j])
              /\ segments = <<>>
        /\ (pc = "err" /\ \E i \in 1..Len(input.segs) :
                              error = SizeError(input.segs[i]))
              => Mismatches(input) # {}

\* C2 witness: a header of another type with differing sizes is passed
\* over, the PT_LOAD header after it is reported
C2_Witness ==
    /\ pc = "err"
    /\ Len(input.segs) = 3
    /\ input.segs[1].p_type = <<6, 0, 0, 0>>
    /\ input.segs[1].p_filesz # input.segs[1].p_memsz
    /\ Mismatches(input) = {2}
    /\ error = "segment file size (0x4) differs from memory size (0x8)"

\* C4: a program header with p_align = 0 never triggers a remainder by
\* zero; its alignment check counts as satisfied, so a table whose other
\* headers are aligned is accepted.
C4_ZeroAlignAccepted ==
    ( /\ pc \notin {"header", "phdrs"}
      /\ BadPositions(input.ehdr) = {}
      /\ \E i \in 1..Len(input.segs) : input.segs[i].p_align = Zeros(8)
      /\ \A i \in 1..Len(input.segs) :
            input.segs[i].p_align # Zeros(8) => Aligned(input.segs[i]) )
    => /\ ~(pc = "panic" /\ error =
               "attempt to calculate the remainder with a divisor of zero")
       /\ Len(program_headers) = Len(input.segs)


\* the payload of the input's NT_FILE note and what it declares
FileNoteOf(in) == in.segs[1].recs[2].desc
DeclaredCount(in) == ToNat(SubSeq(FileNoteOf(in), 1, 8))
DeclaredPageSize(in) == SubSeq(FileNoteOf(in), 9, 16)
DeclaredPageIdx(in, i) == SubSeq(FileNoteOf(in), 24 * i + 9, 24 * i + 16)
PathBlockOf(in) ==
    SubSeq(FileNoteOf(in), 17 + 24 * DeclaredCount(in), Len(FileNoteOf(in)))

\* the number of NUL-terminated paths in a path block
TerminatedPaths(block) == Cardinality({i \in 1..Len(block) : block[i] = 0})

\* C3: when the NT_FILE note declares count = n and its path block holds
\* fewer than n NUL-terminated paths, the parse fails with "NT_FILE note
\* contains too few paths".
C3_TooFewPaths ==
    ( /\ pc \notin {"header", "phdrs", "notes", "segments", "process",
                    "threads", "file_map", "panic"}
      /\ TerminatedPaths(PathBlockOf(input)) < DeclaredCount(input) )
    => pc = "err" /\ error = "NT_FILE note contains too few paths"

\* C10: in a successful result every file_offset is the true product
\* page_idx * page_size of its entry, hence an exact multiple of page_size
\* (zero when page_size is zero).
C10_FileOffset ==
    pc = "done" =>
        /\ Len(file_map) = DeclaredCount(input)
        /\ \A i \in 1..Len(file_map) :
              LET ps   == DeclaredPageSize(input)
                  prod == MulLE(DeclaredPageIdx(input, i), ps)
                  off  == file_map[i].file_offset
              IN  /\ ~prod.overflow
                  /\ off = prod.val
                  /\ IF ps = Zeros(8) THEN off = Zeros(8)
                     ELSE RemLE(off, ps) = Zeros(8)


\* the bytes of a name up to its first NUL
CutAtNul(name) ==
    LET nuls == {i \in 1..Len(name) : name[i] = 0}
    IN  IF nuls = {} THEN name
        ELSE SubSeq(name, 1, (CHOOSE i \in nuls : \A j \in nuls : i <= j) - 1)

RECURSIVE RecordsOf(_, _)
\* the note records of the input's PT_NOTE segments from segment i on, in
\* program-header table order
RecordsOf(in, i) ==
    IF i > Len(in.segs) THEN <<>>
    ELSE (IF in.segs[i].p_type = <<4, 0, 0, 0>> THEN in.segs[i].recs
          ELSE <<>>) \o RecordsOf(in, i + 1)

\* C8: PT_NOTE segments that are concatenations of records laid out as
\* header, name, padding to 4, description, padding to 4 are consumed
\* whole: note extraction succeeds and yields, in program-header table
\* order and then in segment order, one note per record with type = n_type,
\* name = the name bytes cut at the first NUL, desc = the description.
C8_NoteLayout ==
    pc \notin {"header", "phdrs", "notes"} =>
        LET recs == RecordsOf(input, 1) IN
        /\ Len(notes) = Len(recs)
        /\ \A i \in 1..Len(recs) :
              /\ notes[i].type_ = recs[i].type_
              /\ notes[i].name = CutAtNul(recs[i].name)
              /\ notes[i].desc = recs[i].desc

\* C8 witness: two records with unaligned sizes, placed after the
\* segment of another PT_NOTE header, have been extracted
C8_Witness ==
    /\ pc \notin {"header", "phdrs", "notes", "err", "panic"}
    /\ Len(input.segs[2].recs) = 2
    /\ input.segs[1].recs = <<PrpsinfoRec, EmptyFileRec>>
    /\ Len(input.segs[2].recs[1].name) % 4 = 3
    /\ Len(input.segs[2].recs[1].desc) % 4 = 2
    /\ Len(input.segs[2].recs[2].desc) % 4 = 1
    /\ Len(notes) = 4


\* the number of bytes of its last record that the first segment leaves out
CutOf(in) == Len(in.segs[1].content) - ToNat(in.segs[1].p_filesz)

\* the number of bytes of the last record that the first segment holds
KeptOf(in) ==
    LET recs == in.segs[1].recs
    IN  Len(EncNote(recs[Len(recs)])) - CutOf(in)

\* C9 as stated: whenever a PT_NOTE segment ends in the middle of a note
\* record, its 12-byte header included, the parse fails with
\* "note: not enough data".
C9_AsStated ==
    (pc \notin {"header", "phdrs", "notes"} /\ CutOf(input) > 0) =>
        pc = "err" /\ error = "note: not enough data"

\* C9, amended: when a PT_NOTE segment ends in the middle of a note record,
\* the parse fails; with "note: not enough data" when the segment ends
\* inside the name, the name padding, the description or the description
\* padding, and with "Elf64_Nhdr: not enough data" when it ends inside the
\* 12-byte header.
C9_Truncated ==
    (pc \notin {"header", "phdrs", "notes"} /\ CutOf(input) > 0) =>
        /\ pc = "err"
        /\ error = IF KeptOf(input) < 12 THEN "Elf64_Nhdr: not enough data"
                   ELSE "note: not enough data"

\* C9 witness: after one whole record the segment ends inside the header
\* of the next
C9_Witness ==
    /\ pc = "err"
    /\ Len(input.segs[1].recs) = 2
    /\ KeptOf(input) \in 1..11
    /\ error = "Elf64_Nhdr: not enough data"


\* the records of the input owned by CORE (name cut at the first NUL) with
\* the type type_
CoreRecords(in, type_) ==
    SelectSeq(RecordsOf(in, 1),
              LAMBDA r : CutAtNul(r.name) = <<67, 79, 82, 69>>
                         /\ r.type_ = type_)

\* C5: once the threads have been extracted, threads holds one element per
\* note named "CORE" (cut at the first NUL) of type NT_PRSTATUS, in
\* program-header table order and then in segment order, each carrying the
\* pid and the registers of its note; other notes contribute nothing; and
\* when there is no such note, threads is empty and their extraction still
\* succeeds.
C5_Threads ==
    LET status == CoreRecords(input, <<1, 0, 0, 0>>) IN
    /\ pc \in {"file_map", "done"} =>
          /\ Len(threads) = Len(status)
          /\ \A i \in 1..Len(status) :
                /\ threads[i].pid = status[i].pid
                /\ threads[i].registers = status[i].regs
    /\ (status = <<>> /\ pc \in {"err", "panic"}) =>
          error \in {"missing note: CORE/NT_PRPSINFO",
                     "missing note: CORE/NT_FILE"}

\* C5 witness: two threads from two PT_NOTE segments in a successful parse
C5_Witness ==
    /\ pc = "done"
    /\ Len(input.segs) = 2
    /\ Len(threads) = 2
    /\ threads[1].pid = -7
    /\ threads[2].pid = 101
    /\ Len(input.segs[1].recs) = 1
    /\ Len(notes) = 4

\* C6: the parse succeeds only if a CORE/NT_PRPSINFO and a CORE/NT_FILE
\* note are present; in an otherwise valid container without
\* CORE/NT_PRPSINFO (one without program headers included) it fails with
\* "missing note: CORE/NT_PRPSINFO", and with that note present and every
\* CORE/NT_PRSTATUS note well-formed but no CORE/NT_FILE it fails with
\* "missing note: CORE/NT_FILE".
C6_RequiredNotes ==
    LET info   == CoreRecords(input, <<3, 0, 0, 0>>)
        file   == CoreRecords(input, <<69, 76, 73, 70>>)
        status == CoreRecords(input, <<1, 0, 0, 0>>)
    IN  /\ pc = "done" => (info # <<>> /\ file # <<>>)
        /\ (pc \notin {"header", "phdrs", "notes", "segments", "process"}
              /\ info = <<>>)
              => pc = "err" /\ error = "missing note: CORE/NT_PRPSINFO"
        /\ (pc \notin {"header", "phdrs", "notes", "segments", "process",
                       "threads", "file_map"}
              /\ info # <<>> /\ file = <<>>
              /\ \A i \in 1..Len(status) : Len(status[i].desc) >= 332)
              => pc = "err" /\ error = "missing note: CORE/NT_FILE"

\* C6 witness: process information and two threads were extracted, then
\* the NT_FILE note was found missing
C6_Witness ==
    /\ pc = "err"
    /\ error = "missing note: CORE/NT_FILE"
    /\ Len(threads) = 2
    /\ CoreRecords(input, <<3, 0, 0, 0>>) # <<>>


\* the pr_fname and pr_psargs fields of the input's CORE/NT_PRPSINFO note
FnameOf(in) == SubSeq(in.segs[1].recs[1].desc, 41, 56)
PsargsOf(in) == SubSeq(in.segs[1].recs[1].desc, 57, 136)

\* t is the field f up to but excluding its first NUL byte
IsPrefixToNul(t, f) ==
    /\ Len(t) <= Len(f)
    /\ \A i \in 1..Len(t) : t[i] = f[i] /\ t[i] # 0
    /\ Len(t) < Len(f) => f[Len(t) + 1] = 0

\* C11: in every ProcessInfo produced, file_name is the 16-byte pr_fname
\* up to but excluding its first NUL and command is the 80-byte pr_psargs
\* up to but excluding its first NUL: neither holds a NUL, a field that
\* starts with NUL gives an empty slice, a field without NUL gives the
\* whole field.
C11_TrimmedNames ==
    pc \in {"threads", "file_map", "done"} =>
        LET fname  == FnameOf(input)
            psargs == PsargsOf(input)
        IN  /\ IsPrefixToNul(process.file_name, fname)
            /\ IsPrefixToNul(process.command, psargs)
            /\ \A i \in 1..Len(process.file_name) : process.file_name[i] # 0
            /\ \A i \in 1..Len(process.command) : process.command[i] # 0
            /\ fname[1] = 0 => process.file_name = <<>>
            /\ psargs[1] = 0 => process.command = <<>>
            /\ (\A i \in 1..16 : fname[i] # 0) => process.file_name = fname
            /\ (\A i \in 1..80 : psargs[i] # 0) => process.command = psargs

\* C11 witness: a file name cut at a NUL that further text follows, and a
\* command that fills its field
C11_Witness ==
    /\ pc = "done"
    /\ Len(process.file_name) = 2
    /\ \E i \in 4..16 : FnameOf(input)[i] # 0
    /\ Len(process.command) = 80


\* the file range of the program header s of the input is not inside the
\* input buffer
OutsideFile(s) ==
    \/ AddLE(s.p_offset, s.p_filesz).carry = 1
    \/ NatLt(Len(data), AddLE(s.p_offset, s.p_filesz).val)

\* the error for the file range of the program header s
RangeError(s) ==
    "program header has invalid file range: ProgramHeader { type_: "
        \o Dec(s.p_type) \o ", file_offset: " \o Dec(s.p_offset)
        \o ", file_size: " \o Dec(s.p_filesz)
        \o ", memory_address: " \o Dec(s.p_vaddr)
        \o ", memory_size: " \o Dec(s.p_memsz) \o " }"

\* C12: when the range p_offset .. p_offset + p_filesz of a PT_NOTE program
\* header, or of a PT_LOAD program header with p_filesz = p_memsz, is not
\* inside the input buffer, the parse ends with the error "program header
\* has invalid file range: .." for that header, for all 64-bit p_offset and
\* p_filesz, those whose sum exceeds 2^64 - 1 included: the parse is never
\* aborted and never succeeds.
C12_InvalidFileRange ==
    pc \in {"done", "err", "panic"} =>
        \A i \in 1..Len(input.segs) :
            LET s == input.segs[i] IN
            ( /\ OutsideFile(s)
              /\ \/ s.p_type = <<4, 0, 0, 0>>
                 \/ s.p_type = <<1, 0, 0, 0>> /\ s.p_filesz = s.p_memsz )
            => pc = "err" /\ error = RangeError(s)


\* the number of complete 24-byte entries after the two leading u64 fields
\* of the NT_FILE description d
CompleteEntries(d) == (Len(d) - 16) \div 24

\* the NT_FILE description d is too short for its two leading fields, or
\* declares more entries than follow them
CountTooLarge(d) ==
    \/ Len(d) < 16
    \/ NatLt(CompleteEntries(d), SubSeq(d, 1, 8))

\* C13: when the NT_FILE description is shorter than 16 bytes or declares
\* a count larger than the number of complete 24-byte entries after the
\* two leading fields, the parse ends with the error "NT_FILE note: not
\* enough data", for every 64-bit count: the declared count never aborts
\* the parse.
C13_CountNotEnoughData ==
    ( /\ pc \in {"done", "err", "panic"}
      /\ CountTooLarge(FileNoteOf(input)) )
    => pc = "err" /\ error = "NT_FILE note: not enough data"


\* positions of the PT_NOTE program headers whose segment ends before the
\* end of its last record
Truncations(in) ==
    {i \in 1..Len(in.segs) :
        /\ in.segs[i].p_type = <<4, 0, 0, 0>>
        /\ ToNat(in.segs[i].p_filesz) < Len(in.segs[i].content)}

\* positions of the program headers, of any type, that are not aligned
Unaligned(in) == {i \in 1..Len(in.segs) : ~Aligned(in.segs[i])}

\* the least element of a nonempty set of positions
First(S) == CHOOSE i \in S : \A j \in S : i <= j

\* the stages of the parse whose constraint the input violates
FaultyStages(in) ==
    {s \in {"header"}   : BadPositions(in.ehdr) # {}}
    \cup {s \in {"phdrs"}    : Unaligned(in) # {}}
    \cup {s \in {"notes"}    : Truncations(in) # {}}
    \cup {s \in {"segments"} : Mismatches(in) # {}}
    \cup {s \in {"process"}  : CoreRecords(in, <<3, 0, 0, 0>>) = <<>>}
    \cup {s \in {"threads"}  :
             \E i \in 1..Len(CoreRecords(in, <<1, 0, 0, 0>>)) :
                 Len(CoreRecords(in, <<1, 0, 0, 0>>)[i].desc) < 332}
    \cup {s \in {"file_map"} : CoreRecords(in, <<69, 76, 73, 70>>) = <<>>}

\* the error that reports the violation of stage s by the input
StageError(in, s) ==
    CASE s = "header"   -> HeaderError(in.ehdr, FirstBad(in.ehdr))
      [] s = "phdrs"    -> "Elf64_Phdr: unaligned p_vaddr value: "
                               \o Hex(in.segs[First(Unaligned(in))].p_vaddr)
      [] s = "notes"    -> "note: not enough data"
      [] s = "segments" -> SizeError(in.segs[First(Mismatches(in))])
      [] s = "process"  -> "missing note: CORE/NT_PRPSINFO"
      [] s = "threads"  -> "elf_prstatus: not enough data"
      [] s = "file_map" -> "missing note: CORE/NT_FILE"

\* the fixed order of the stages
StageOrder ==
    <<"header", "phdrs", "notes", "segments", "process", "threads",
      "file_map">>

\* the earliest stage, in the fixed order, that the input violates
EarliestFault(in) ==
    StageOrder[First({i \in 1..Len(StageOrder) :
                         StageOrder[i] \in FaultyStages(in)})]

\* C14: a finished parse of an input that violates the constraints of
\* several stages reports the violation of the earliest stage in the order
\* ELF header, program-header table (alignment of every entry of any type),
\* notes of all PT_NOTE segments, PT_LOAD segments in table order,
\* CORE/NT_PRPSINFO, CORE/NT_PRSTATUS, CORE/NT_FILE; an input that violates
\* none is accepted.
C14_EarliestStage ==
    pc \in {"done", "err", "panic"} =>
        IF FaultyStages(input) = {} THEN pc = "done"
        ELSE /\ pc = "err"
             /\ error = StageError(input, EarliestFault(input))

\* C14 witness: a truncated note stream is reported although both PT_LOAD
\* headers, which come first in the table, have sizes that differ and the
\* required notes are fine
C14_Witness ==
    /\ pc = "err"
    /\ error = "note: not enough data"
    /\ FaultyStages(input) = {"notes", "segments"}
    /\ input.segs[1].p_type = <<1, 0, 0, 0>>
    /\ input.segs[3].p_type = <<4, 0, 0, 0>>

====
